---- MODULE Spec2Model ----
(***************************************************************************)
(* Model of textual/_cache.py: the LRUCache and FIFOCache containers.      *)
(*                                                                         *)
(* One cache instance is built (of either class) and then driven by an    *)
(* arbitrary single-threaded sequence of calls of its public methods      *)
(* (Spec, SpecSetter), or by threads whose calls interleave at the        *)
(* statements that run outside the instance's lock (SpecThreads).         *)
(* Python list objects of the LRU ring live in `heap`, a function from    *)
(* object identities to lists; a link is the 4-element list               *)
(* [PREV, NEXT, KEY, VALUE] and the initial head is the empty list.       *)
(***************************************************************************)
EXTENDS Integers, Sequences, FiniteSets, TLC

\* ---------------------------------------------------------------- bounds
NumKeys    == 3      \* keys are 1..NumKeys
NumValues  == 2      \* values are 1..NumValues
MaxSize    == 2      \* the constructor and grow are called with a size in 1..MaxSize
MaxLookups == 2      \* get / indexed access stop being called once MaxLookups are counted
NumThreads == 2      \* threads are 1..NumThreads
MaxCalls   == 5      \* the threads make at most MaxCalls calls in all

\* ------------------------------------------------------- program constants
\* Python index i of a link is index i+1 of the TLA+ sequence.
PREV  == 1
NEXT  == 2
KEY   == 3
VALUE == 4
\* Python's None (result of set / clear / grow, a KeyError's missing result)
NoneVal == 0

Keys     == 1..NumKeys
Values   == 1..NumValues
Sizes    == 1..MaxSize
\* the value a caller passes as `default`: neither None nor a cached value
Defaults == {NumValues + 1}
Classes  == {"LRUCache", "FIFOCache"}
Threads  == 1..NumThreads

\* a thread between two calls; err is the error its last call ended in
Idle(e) == [pc |-> "idle", op |-> "none", key |-> NoneVal, value |-> NoneVal,
            link |-> NoneVal, first |-> NoneVal, read |-> NoneVal, err |-> e]

VARIABLES
    cls,        \* the class of the instance that was constructed
    maxsize,    \* self._maxsize
    hits,       \* self.hits
    misses,     \* self.misses
    cache,      \* LRUCache._cache : key -> identity of its link
    full,       \* LRUCache._full
    head,       \* LRUCache._head : identity of a list object
    heap,       \* the list objects reachable from _head and _cache
    fcache,     \* FIFOCache._cache : insertion-ordered sequence of <<key, value>>
    last,       \* the call that produced this state and its outcome
    recency,    \* history: present LRU keys, most recently used first
    inserted,   \* history: present FIFO keys, earliest inserted first
    lookups,    \* history: number of LRU lookups of a present / an absent key
    requested,  \* history: maximum of the initial maxsize and all grow(n)
    thr,        \* per thread: position in its call, the call's locals and outcome
    lock,       \* self._lock: 0 when free, else the thread that holds it
    calls       \* number of calls the threads have started

vars == <<cls, maxsize, hits, misses, cache, full, head, heap, fcache,
          last, recency, inserted, lookups, requested, thr, lock, calls>>

lruVars  == <<cache, full, head, heap, recency>>
fifoVars == <<fcache, inserted>>
thrVars  == <<thr, lock, calls>>
histVars == <<last, recency, inserted, lookups, requested>>

\* ------------------------------------------------------------ dictionaries
EmptyDict == [k \in {} |-> 0]

DictSet(d, k, v) == [x \in (DOMAIN d) \cup {k} |-> IF x = k THEN v ELSE d[x]]

DictDel(d, k) == [x \in (DOMAIN d) \ {k} |-> d[x]]

Max(a, b) == IF a >= b THEN a ELSE b

\* ------------------------------------------------------------- the heap
\* Identity of a newly created list object.
NewId(h) ==
    CHOOSE n \in 1..(Cardinality(DOMAIN h) + 1) :
        /\ n \notin DOMAIN h
        /\ \A m \in 1..(n - 1) : m \in DOMAIN h

RECURSIVE Closure(_, _)
Closure(h, S) ==
    LET T == S \cup UNION {{h[n][PREV], h[n][NEXT]} : n \in {m \in S : Len(h[m]) > 0}}
    IN  IF T = S THEN S ELSE Closure(h, T)

Range(f) == {f[x] : x \in DOMAIN f}

RECURSIVE Walk(_, _, _)
\* the objects met from n along the NEXT references
Walk(h, n, acc) ==
    IF n \in Range(acc) THEN acc
    ELSE IF Len(h[n]) = 0 THEN Append(acc, n)
    ELSE Walk(h, h[n][NEXT], Append(acc, n))

RECURSIVE Ascending(_)
Ascending(S) ==
    IF S = {} THEN <<>>
    ELSE LET m == CHOOSE x \in S : \A y \in S : x <= y
         IN  <<m>> \o Ascending(S \ {m})

Pos(order, n) == CHOOSE i \in DOMAIN order : order[i] = n

\* the objects are 1..n, the head is 1 and NEXT leads from i to i+1 and from n
\* to 1: the numbering Collect gives, which it then leaves as it is
InRingOrder(h, hd) ==
    LET n == Cardinality(DOMAIN h)
    IN  /\ hd = 1
        /\ DOMAIN h = 1..n
        /\ \/ n = 1 /\ Len(h[1]) = 0
           \/ \A i \in 1..n : Len(h[i]) = 4 /\ h[i][NEXT] = (i % n) + 1

\* The object graph of the instance after a call: objects no longer
\* referenced from _head or _cache are reclaimed, and, identities being
\* unobservable, the remaining objects are numbered in ring order from _head.
Collect(c, h, hd) ==
    IF InRingOrder(h, hd)
    THEN [cache |-> c, head |-> hd, heap |-> h]
    ELSE
    LET live  == Closure(h, {hd} \cup Range(c))
        ring  == Walk(h, hd, <<>>)
        order == ring \o Ascending(live \ Range(ring))
    IN  [cache |-> [k \in DOMAIN c |-> Pos(order, c[k])],
         head  |-> Pos(order, hd),
         heap  |-> [i \in 1..Len(order) |->
                      LET e == h[order[i]]
                      IN  IF Len(e) = 0 THEN e
                          ELSE <<Pos(order, e[PREV]), Pos(order, e[NEXT]), e[KEY], e[VALUE]>>]]

\* history record of a call: its name, the key of a set or lookup, its result,
\* whether it raised, and the keys it removed from the mapping
Call(op, key, ret, raised, removed) ==
    [op |-> op, key |-> key, ret |-> ret, raised |-> raised, removed |-> removed]

\* ------------------------------------------------------------- LRUCache
\* variant: the new link is put before the head, which stays the head
SetInsert_KeepHead(c, h, hd, key, value) ==
    IF Len(h[hd]) = 0
    THEN [heap  |-> [h EXCEPT ![hd] = <<hd, hd, key, value>>],
          head  |-> hd,
          cache |-> DictSet(c, key, hd)]
    ELSE LET n  == NewId(h)
             h1 == h @@ (n :> <<h[hd][PREV], hd, key, value>>)
             h2 == [h1 EXCEPT ![h1[hd][PREV]][NEXT] = n]
             h3 == [h2 EXCEPT ![hd][PREV] = n]
         IN  [heap |-> h3, head |-> hd, cache |-> DictSet(c, key, n)]

\* set, new key: the link becomes the head of the ring
SetInsert(c, h, hd, key, value) ==
    IF Len(h[hd]) = 0
    THEN [heap  |-> [h EXCEPT ![hd] = <<hd, hd, key, value>>],
          head  |-> hd,
          cache |-> DictSet(c, key, hd)]
    ELSE LET n  == NewId(h)
             h1 == h @@ (n :> <<h[hd][PREV], hd, key, value>>)
             h2 == [h1 EXCEPT ![h1[hd][PREV]][NEXT] = n]
             h3 == [h2 EXCEPT ![hd][PREV] = n]
         IN  [heap |-> h3, head |-> n, cache |-> DictSet(c, key, n)]

\* variant: the full flag is not consulted
SetMustEvict_SizeOnly(f, c, m) == Cardinality(DOMAIN c) > m

\* variant: the size test lets one entry too many stay
SetMustEvict_OffByOne(f, c, m) == f \/ Cardinality(DOMAIN c) > m + 1

\* set: is the oldest link evicted after the insertion?
SetMustEvict(f, c, m) == f \/ Cardinality(DOMAIN c) > m

\* variant: the victim is taken from the NEXT side of the head
SetEvict_Next(c, h, hd) ==
    LET lst == h[hd][NEXT]
        h1  == [h EXCEPT ![h[lst][NEXT]][PREV] = hd]
        h2  == [h1 EXCEPT ![hd][NEXT] = h1[lst][NEXT]]
    IN  [heap |-> h2, head |-> hd, cache |-> DictDel(c, h2[lst][KEY])]

\* set: evict the link before the head
SetEvict(c, h, hd) ==
    LET lst == h[hd][PREV]
        h1  == [h EXCEPT ![h[lst][PREV]][NEXT] = hd]
        h2  == [h1 EXCEPT ![hd][PREV] = h1[lst][PREV]]
    IN  [heap |-> h2, head |-> hd, cache |-> DictDel(c, h2[lst][KEY])]

\* history: keys of c in the order of u with key k moved to the front
Touch(u, k, c) ==
    SelectSeq(<<k>> \o SelectSeq(u, LAMBDA x : x # k), LAMBDA x : x \in DOMAIN c)

\* variant: a present key has its value replaced
SetState_Update(c, h, hd, f, m, key, value) ==
    IF key \in DOMAIN c
    THEN [cache |-> c, heap |-> [h EXCEPT ![c[key]][VALUE] = value], head |-> hd, full |-> f]
    ELSE LET a == SetInsert(c, h, hd, key, value)
             e == SetMustEvict(f, a.cache, m)
             b == IF e THEN SetEvict(a.cache, a.heap, a.head) ELSE a
         IN  [cache |-> b.cache, heap |-> b.heap, head |-> b.head, full |-> (f \/ e)]

\* set: the whole critical section
SetState(c, h, hd, f, m, key, value) ==
    IF key \in DOMAIN c
    THEN [cache |-> c, heap |-> h, head |-> hd, full |-> f]
    ELSE LET a == SetInsert(c, h, hd, key, value)
             e == SetMustEvict(f, a.cache, m)
             b == IF e THEN SetEvict(a.cache, a.heap, a.head) ELSE a
         IN  [cache |-> b.cache, heap |-> b.heap, head |-> b.head, full |-> (f \/ e)]

LRUSet(key, value) ==
    /\ cls = "LRUCache"
    /\ \E r \in {SetState(cache, heap, head, full, maxsize, key, value)} :
       \E g \in {Collect(r.cache, r.heap, r.head)} :
           /\ cache' = g.cache
           /\ head' = g.head
           /\ heap' = g.heap
           /\ full' = r.full
           /\ recency' = IF key \in DOMAIN cache
                         THEN SelectSeq(recency, LAMBDA x : x \in DOMAIN r.cache)
                         ELSE Touch(recency, key, r.cache)
           /\ last' = Call("set", key, NoneVal, FALSE,
                           (DOMAIN cache \cup {key}) \ DOMAIN r.cache)
    /\ UNCHANGED <<thrVars, cls, maxsize, hits, misses, fifoVars, lookups, requested>>

\* variant: the detached link's successor keeps its back pointer
Promote_NoBackLink(h, hd, link) ==
    LET h1 == [h  EXCEPT ![h[link][PREV]][NEXT] = h[link][NEXT]]
        h3 == [h1 EXCEPT ![link][PREV] = h1[hd][PREV]]
        h4 == [h3 EXCEPT ![link][NEXT] = hd]
        h5 == [h4 EXCEPT ![h4[hd][PREV]][NEXT] = link]
        h6 == [h5 EXCEPT ![hd][PREV] = link]
    IN  [heap |-> h6, head |-> link]

\* get / __getitem__, present key that is not the head: move the link to the head
Promote(h, hd, link) ==
    LET h1 == [h  EXCEPT ![h[link][PREV]][NEXT] = h[link][NEXT]]
        h2 == [h1 EXCEPT ![h1[link][NEXT]][PREV] = h1[link][PREV]]
        h3 == [h2 EXCEPT ![link][PREV] = h2[hd][PREV]]
        h4 == [h3 EXCEPT ![link][NEXT] = hd]
        h5 == [h4 EXCEPT ![h4[hd][PREV]][NEXT] = link]
        h6 == [h5 EXCEPT ![hd][PREV] = link]
    IN  [heap |-> h6, head |-> link]

\* variant: the head is relinked like any other link
LookupHit_AlwaysPromote(h, hd, link, n) ==
    LET p == Promote(h, hd, link)
    IN  [heap |-> p.heap, head |-> p.head, hits |-> n + 1, ret |-> p.heap[link][VALUE]]

\* variant: a lookup of the head is not counted
LookupHit_HeadUncounted(h, hd, link, n) ==
    IF link # hd
    THEN LET p == Promote(h, hd, link)
         IN  [heap |-> p.heap, head |-> p.head, hits |-> n + 1, ret |-> p.heap[link][VALUE]]
    ELSE [heap |-> h, head |-> hd, hits |-> n, ret |-> h[link][VALUE]]

\* get / __getitem__, present key: promotion, hit count and the value returned
LookupHit(h, hd, link, n) ==
    LET p == IF link # hd THEN Promote(h, hd, link) ELSE [heap |-> h, head |-> hd]
    IN  [heap |-> p.heap, head |-> p.head, hits |-> n + 1, ret |-> p.heap[link][VALUE]]

\* variant: a failed lookup is not counted
LookupMiss_Uncounted(n) == n

\* get / __getitem__, absent key: the miss count
LookupMiss(n) == n + 1

LRULookup(op, key, missRet, missRaises) ==
    /\ cls = "LRUCache"
    /\ hits + misses < MaxLookups
    /\ IF key \notin DOMAIN cache
       THEN /\ misses' = LookupMiss(misses)
            /\ last' = Call(op, key, missRet, missRaises, {})
            /\ lookups' = [lookups EXCEPT !.miss = @ + 1]
            /\ UNCHANGED <<hits, lruVars>>
       ELSE \E r \in {LookupHit(heap, head, cache[key], hits)} :
            \E g \in {Collect(cache, r.heap, r.head)} :
                /\ cache' = g.cache
                /\ heap' = g.heap
                /\ head' = g.head
                /\ hits' = r.hits
                /\ last' = Call(op, key, r.ret, FALSE, {})
                /\ recency' = Touch(recency, key, cache)
                /\ lookups' = [lookups EXCEPT !.hit = @ + 1]
                /\ UNCHANGED <<misses, full>>
    /\ UNCHANGED <<thrVars, cls, maxsize, fifoVars, requested>>

LRUGet(key, default) == LRULookup("get", key, default, FALSE)

LRUGetitem(key) == LRULookup("getitem", key, NoneVal, TRUE)

\* __contains__: True is 1, False is 0
ContainsResult(c, key) == IF key \in DOMAIN c THEN 1 ELSE 0

LRUContains(key) ==
    /\ cls = "LRUCache"
    /\ last' = Call("contains", NoneVal, ContainsResult(cache, key), FALSE, {})
    /\ UNCHANGED <<thrVars, cls, maxsize, hits, misses, lruVars, fifoVars, lookups, requested>>

LRUKeys ==
    /\ cls = "LRUCache"
    /\ last' = Call("keys", NoneVal, DOMAIN cache, FALSE, {})
    /\ UNCHANGED <<thrVars, cls, maxsize, hits, misses, lruVars, fifoVars, lookups, requested>>

\* variant: the requested size is taken as it is
GrowSize_Assign(m, n) == n

\* grow: the new maximum size
GrowSize(m, n) == Max(m, n)

LRUGrow(n) ==
    /\ cls = "LRUCache"
    /\ maxsize' = GrowSize(maxsize, n)
    /\ requested' = IF n > requested THEN n ELSE requested
    /\ last' = Call("grow", NoneVal, NoneVal, FALSE, {})
    /\ UNCHANGED <<thrVars, cls, hits, misses, lruVars, fifoVars, lookups>>

\* variant: the full flag survives
ClearState_KeepFull(h, f) ==
    LET n == NewId(h)
    IN  [cache |-> EmptyDict, full |-> f, head |-> n, heap |-> h @@ (n :> <<>>)]

\* clear: the emptied mapping, the full flag and the new (empty) head list
ClearState(h, f) ==
    LET n == NewId(h)
    IN  [cache |-> EmptyDict, full |-> FALSE, head |-> n, heap |-> h @@ (n :> <<>>)]

LRUClear ==
    /\ cls = "LRUCache"
    /\ \E r \in {ClearState(heap, full)} :
       \E g \in {Collect(r.cache, r.heap, r.head)} :
           /\ cache' = g.cache
           /\ full' = r.full
           /\ head' = g.head
           /\ heap' = g.heap
           /\ recency' = SelectSeq(recency, LAMBDA x : x \in DOMAIN r.cache)
    /\ last' = Call("clear", NoneVal, NoneVal, FALSE, DOMAIN cache)
    /\ UNCHANGED <<thrVars, cls, maxsize, hits, misses, fifoVars, lookups, requested>>

\* ------------------------------------------------------------ FIFOCache
FKeys(d) == {d[i][1] : i \in DOMAIN d}

FIndex(d, k) == CHOOSE i \in DOMAIN d : d[i][1] = k

\* variant: an overwritten key moves to the end of the order
FPut_MoveToEnd(d, k, v) == Append(SelectSeq(d, LAMBDA e : e[1] # k), <<k, v>>)

\* dict[key] = value: overwrite in place, or append a new key
FPut(d, k, v) ==
    IF k \in FKeys(d)
    THEN [d EXCEPT ![FIndex(d, k)] = <<k, v>>]
    ELSE Append(d, <<k, v>>)

\* dict.pop(key)
FPop(d, k) == SelectSeq(d, LAMBDA e : e[1] # k)

\* variant: the newest key is taken
FFirstKey_Last(d) == d[Len(d)][1]

\* next(iter(dict.keys()))
FFirstKey(d) == d[1][1]

\* variant: eviction starts one entry too late
FSetMustEvict_Late(d, key, m) == key \notin FKeys(d) /\ Len(d) > m

\* set: does the insertion evict first?
FSetMustEvict(d, key, m) == key \notin FKeys(d) /\ Len(d) >= m

FSetState(d, key, value, m) ==
    LET d1 == IF FSetMustEvict(d, key, m) THEN FPop(d, FFirstKey(d)) ELSE d
    IN  FPut(d1, key, value)

FIFOSet(key, value) ==
    /\ cls = "FIFOCache"
    /\ ~ (FSetMustEvict(fcache, key, maxsize) /\ Len(fcache) = 0)
    /\ fcache' = FSetState(fcache, key, value, maxsize)
    /\ inserted' = SelectSeq(IF key \in FKeys(fcache) THEN inserted ELSE Append(inserted, key),
                             LAMBDA x : x \in FKeys(fcache'))
    /\ last' = Call("set", key, NoneVal, FALSE,
                    (FKeys(fcache) \cup {key}) \ FKeys(fcache'))
    /\ UNCHANGED <<thrVars, cls, maxsize, hits, misses, lruVars, lookups, requested>>

FIFOClear ==
    /\ cls = "FIFOCache"
    /\ fcache' = <<>>
    /\ inserted' = <<>>
    /\ last' = Call("clear", NoneVal, NoneVal, FALSE, FKeys(fcache))
    /\ UNCHANGED <<thrVars, cls, maxsize, hits, misses, lruVars, lookups, requested>>

\* dict.get(key, default)
FGetResult(d, key, default) ==
    IF key \in FKeys(d) THEN d[FIndex(d, key)][2] ELSE default

FIFOGet(key, default) ==
    /\ cls = "FIFOCache"
    /\ last' = Call("get", key, FGetResult(fcache, key, default), FALSE, {})
    /\ UNCHANGED <<thrVars, cls, maxsize, hits, misses, lruVars, fifoVars, lookups, requested>>

\* variant: a failed indexed access counts a miss only
FGetitemResult_MissOnly(d, key, h, m) ==
    IF key \in FKeys(d)
    THEN [ret |-> d[FIndex(d, key)][2], raised |-> FALSE, hits |-> h + 1, misses |-> m]
    ELSE [ret |-> NoneVal, raised |-> TRUE, hits |-> h, misses |-> m + 1]

\* __getitem__: try / except KeyError / finally
FGetitemResult(d, key, h, m) ==
    IF key \in FKeys(d)
    THEN [ret |-> d[FIndex(d, key)][2], raised |-> FALSE, hits |-> h + 1, misses |-> m]
    ELSE [ret |-> NoneVal, raised |-> TRUE, hits |-> h + 1, misses |-> m + 1]

FIFOGetitem(key) ==
    /\ cls = "FIFOCache"
    /\ hits < MaxLookups
    /\ \E r \in {FGetitemResult(fcache, key, hits, misses)} :
           /\ hits' = r.hits
           /\ misses' = r.misses
           /\ last' = Call("getitem", key, r.ret, r.raised, {})
    /\ UNCHANGED <<thrVars, cls, maxsize, lruVars, fifoVars, lookups, requested>>

\* the membership hook, named __container__ in the source
FContainerResult(d, key) == IF key \in FKeys(d) THEN 1 ELSE 0

FIFOContainer(key) ==
    /\ cls = "FIFOCache"
    /\ last' = Call("contains", NoneVal, FContainerResult(fcache, key), FALSE, {})
    /\ UNCHANGED <<thrVars, cls, maxsize, hits, misses, lruVars, fifoVars, lookups, requested>>

FIFOKeys ==
    /\ cls = "FIFOCache"
    /\ last' = Call("keys", NoneVal, [i \in DOMAIN fcache |-> fcache[i][1]], FALSE, {})
    /\ UNCHANGED <<thrVars, cls, maxsize, hits, misses, lruVars, fifoVars, lookups, requested>>

\* ------------------------------------------------------- specification
Init ==
    /\ cls \in Classes
    /\ maxsize \in Sizes
    /\ hits = 0
    /\ misses = 0
    /\ cache = EmptyDict
    /\ full = FALSE
    /\ head = 1
    /\ heap = (1 :> <<>>)
    /\ fcache = <<>>
    /\ last = Call("init", NoneVal, NoneVal, FALSE, {})
    /\ recency = <<>>
    /\ inserted = <<>>
    /\ lookups = [hit |-> 0, miss |-> 0]
    /\ requested = maxsize
    /\ thr = [t \in Threads |-> Idle("none")]
    /\ lock = 0
    /\ calls = 0

Next ==
    \/ \E key \in Keys, value \in Values : LRUSet(key, value)
    \/ \E key \in Keys, default \in Defaults : LRUGet(key, default)
    \/ \E key \in Keys : LRUGetitem(key)
    \/ \E key \in Keys : LRUContains(key)
    \/ LRUKeys
    \/ \E n \in Sizes : LRUGrow(n)
    \/ LRUClear
    \/ \E key \in Keys, value \in Values : FIFOSet(key, value)
    \/ \E key \in Keys, default \in Defaults : FIFOGet(key, default)
    \/ \E key \in Keys : FIFOGetitem(key)
    \/ \E key \in Keys : FIFOContainer(key)
    \/ FIFOKeys
    \/ FIFOClear

Spec == Init /\ [][Next]_vars

\* ------------------------------------------------------------ one class
InitLRU == Init /\ cls = "LRUCache"

NextLRU ==
    \/ \E key \in Keys, value \in Values : LRUSet(key, value)
    \/ \E key \in Keys, default \in Defaults : LRUGet(key, default)
    \/ \E key \in Keys : LRUGetitem(key)
    \/ \E key \in Keys : LRUContains(key)
    \/ LRUKeys
    \/ \E n \in Sizes : LRUGrow(n)
    \/ LRUClear

\* the runs of Spec in which the instance is an LRUCache
SpecLRU == InitLRU /\ [][NextLRU]_vars

InitFIFO == Init /\ cls = "FIFOCache"

NextFIFO ==
    \/ \E key \in Keys, value \in Values : FIFOSet(key, value)
    \/ \E key \in Keys, default \in Defaults : FIFOGet(key, default)
    \/ \E key \in Keys : FIFOGetitem(key)
    \/ \E key \in Keys : FIFOContainer(key)
    \/ FIFOKeys
    \/ FIFOClear

\* the runs of Spec in which the instance is a FIFOCache
SpecFIFO == InitFIFO /\ [][NextFIFO]_vars

\* ------------------------------------------------------------ maxsize setter
\* maxsize property setter: the value given replaces the maximum size
SetterSize(m, n) == n

LRUSetMaxsize(n) ==
    /\ cls = "LRUCache"
    /\ maxsize' = SetterSize(maxsize, n)
    /\ last' = Call("maxsize", NoneVal, NoneVal, FALSE, {})
    /\ UNCHANGED <<thrVars, cls, hits, misses, lruVars, fifoVars, lookups, requested>>

NextSetter ==
    \/ Next
    \/ \E n \in Sizes : LRUSetMaxsize(n)

\* the calls of Spec and assignments to the maxsize property
SpecSetter == Init /\ [][NextSetter]_vars

\* ------------------------------------------------------------ threads
\* Statements under `with self._lock` of an LRUCache touch state that only
\* lock holders write, so each locked block is one step; the statements
\* outside the lock are steps of their own, and += is a load and a store.
\* FIFOCache.clear takes no lock, so the statements of FIFOCache.set are
\* steps of their own too.

\* the list objects a thread or the cache can still reach
Keep(c, h, hd, T) ==
    LET live == Closure(h, ({hd} \cup Range(c) \cup {T[t].link : t \in Threads}) \ {NoneVal})
    IN  [n \in live |-> h[n]]

Begin(t) == thr[t].pc = "idle" /\ calls < MaxCalls /\ calls' = calls + 1

\* get / __getitem__ of an LRUCache: link = self._cache.get(key), no lock held
TLookupRead(t, op, key) ==
    /\ cls = "LRUCache"
    /\ Begin(t)
    /\ thr' = [thr EXCEPT ![t] =
                  IF key \in DOMAIN cache
                  THEN [Idle("none") EXCEPT !.pc = "promote", !.op = op, !.key = key,
                                            !.link = cache[key]]
                  ELSE [Idle("none") EXCEPT !.pc = "miss_load", !.op = op, !.key = key]]
    /\ UNCHANGED <<cls, maxsize, hits, misses, cache, full, head, heap, fcache, histVars, lock>>

\* self.misses += 1: the load
TMissLoad(t) ==
    /\ thr[t].pc = "miss_load"
    /\ thr' = [thr EXCEPT ![t].pc = "miss_store", ![t].read = misses]
    /\ UNCHANGED <<cls, maxsize, hits, misses, cache, full, head, heap, fcache, histVars,
                   lock, calls>>

\* self.misses += 1: the store; an LRUCache lookup then returns the default or
\* raises KeyError, a FIFOCache __getitem__ goes on to its finally clause
TMissStore(t) ==
    /\ thr[t].pc = "miss_store"
    /\ misses' = LookupMiss(thr[t].read)
    /\ thr' = [thr EXCEPT ![t] =
                  IF cls = "LRUCache"
                  THEN Idle(IF thr[t].op = "getitem" THEN "KeyNotFound" ELSE "none")
                  ELSE [thr[t] EXCEPT !.pc = "hit_load", !.read = NoneVal,
                                      !.err = "KeyNotFound"]]
    /\ UNCHANGED <<cls, maxsize, hits, cache, full, head, heap, fcache, histVars, lock, calls>>

\* promotion when clear has replaced the head by an empty list: the link is
\* taken out of its old ring, then head[0] raises IndexError
PromoteFails(h, hd, link) == link # hd /\ Len(h[hd]) = 0

PromoteDetach(h, link) ==
    LET h1 == [h  EXCEPT ![h[link][PREV]][NEXT] = h[link][NEXT]]
    IN  [h1 EXCEPT ![h1[link][NEXT]][PREV] = h1[link][PREV]]

\* get / __getitem__ of an LRUCache: the block under the lock
TPromote(t) ==
    /\ cls = "LRUCache"
    /\ thr[t].pc = "promote"
    /\ lock = 0
    /\ IF PromoteFails(heap, head, thr[t].link)
       THEN /\ thr' = [thr EXCEPT ![t] = Idle("IndexError")]
            /\ heap' = Keep(cache, PromoteDetach(heap, thr[t].link), head, thr')
            /\ UNCHANGED <<head, hits>>
       ELSE \E r \in {LookupHit(heap, head, thr[t].link, hits)} :
                /\ thr' = [thr EXCEPT ![t] = Idle("none")]
                /\ heap' = Keep(cache, r.heap, r.head, thr')
                /\ head' = r.head
                /\ hits' = r.hits
    /\ UNCHANGED <<cls, maxsize, misses, cache, full, fcache, histVars, lock, calls>>

\* set of an LRUCache: del self._cache[last[2]] raises KeyError when the key
\* of the evicted link is not in the mapping
SetDelFails(c, h, hd, f, m, key, value) ==
    /\ key \notin DOMAIN c
    /\ LET a == SetInsert(c, h, hd, key, value)
       IN  /\ SetMustEvict(f, a.cache, m)
           /\ a.heap[a.heap[a.head][PREV]][KEY] \notin DOMAIN a.cache

\* set of an LRUCache: the block under the lock
TSet(t, key, value) ==
    /\ cls = "LRUCache"
    /\ Begin(t)
    /\ lock = 0
    /\ \E r \in {SetState(cache, heap, head, full, maxsize, key, value)} :
           /\ thr' = [thr EXCEPT ![t] =
                         Idle(IF SetDelFails(cache, heap, head, full, maxsize, key, value)
                              THEN "KeyError" ELSE "none")]
           /\ cache' = r.cache
           /\ heap' = Keep(r.cache, r.heap, r.head, thr')
           /\ head' = r.head
           /\ full' = r.full
    /\ UNCHANGED <<cls, maxsize, hits, misses, fcache, histVars, lock>>

\* clear of an LRUCache: the block under the lock
TClear(t) ==
    /\ cls = "LRUCache"
    /\ Begin(t)
    /\ lock = 0
    /\ \E r \in {ClearState(heap, full)} :
           /\ thr' = [thr EXCEPT ![t] = Idle("none")]
           /\ cache' = r.cache
           /\ heap' = Keep(r.cache, r.heap, r.head, thr')
           /\ head' = r.head
           /\ full' = r.full
    /\ UNCHANGED <<cls, maxsize, hits, misses, fcache, histVars, lock>>

\* set of a FIFOCache: the lock is taken and the condition of the if is
\* evaluated (a clear between its two tests leaves its outcome as a clear
\* before both does)
TFSetCheck(t, key, value) ==
    /\ cls = "FIFOCache"
    /\ Begin(t)
    /\ lock = 0
    /\ lock' = t
    /\ thr' = [thr EXCEPT ![t] =
                  [Idle("none") EXCEPT !.op = "set", !.key = key, !.value = value,
                                       !.pc = IF FSetMustEvict(fcache, key, maxsize)
                                              THEN "first" ELSE "put"]]
    /\ UNCHANGED <<cls, maxsize, hits, misses, cache, full, head, heap, fcache, histVars>>

\* set of a FIFOCache: next(iter(self._cache.keys())), StopIteration when
\* the mapping is empty; the with statement releases the lock
TFSetFirst(t) ==
    /\ thr[t].pc = "first"
    /\ IF Len(fcache) = 0
       THEN /\ thr' = [thr EXCEPT ![t] = Idle("StopIteration")]
            /\ lock' = 0
       ELSE /\ thr' = [thr EXCEPT ![t].pc = "pop", ![t].first = FFirstKey(fcache)]
            /\ UNCHANGED lock
    /\ UNCHANGED <<cls, maxsize, hits, misses, cache, full, head, heap, fcache, histVars, calls>>

\* set of a FIFOCache: self._cache.pop(key), KeyError when the key is gone
TFSetPop(t) ==
    /\ thr[t].pc = "pop"
    /\ IF thr[t].first \in FKeys(fcache)
       THEN /\ fcache' = FPop(fcache, thr[t].first)
            /\ thr' = [thr EXCEPT ![t].pc = "put", ![t].first = NoneVal]
            /\ UNCHANGED lock
       ELSE /\ thr' = [thr EXCEPT ![t] = Idle("KeyError")]
            /\ lock' = 0
            /\ UNCHANGED fcache
    /\ UNCHANGED <<cls, maxsize, hits, misses, cache, full, head, heap, histVars, calls>>

\* set of a FIFOCache: self._cache[key] = value, and the lock is released
TFSetPut(t) ==
    /\ thr[t].pc = "put"
    /\ fcache' = FPut(fcache, thr[t].key, thr[t].value)
    /\ thr' = [thr EXCEPT ![t] = Idle("none")]
    /\ lock' = 0
    /\ UNCHANGED <<cls, maxsize, hits, misses, cache, full, head, heap, histVars, calls>>

\* clear of a FIFOCache: self._cache.clear(), no lock taken
TFClear(t) ==
    /\ cls = "FIFOCache"
    /\ Begin(t)
    /\ fcache' = <<>>
    /\ thr' = [thr EXCEPT ![t] = Idle("none")]
    /\ UNCHANGED <<cls, maxsize, hits, misses, cache, full, head, heap, histVars, lock>>

\* __getitem__ of a FIFOCache: self._cache[key] is evaluated
TFGetitemRead(t, key) ==
    /\ cls = "FIFOCache"
    /\ Begin(t)
    /\ thr' = [thr EXCEPT ![t] =
                  [Idle("none") EXCEPT !.op = "getitem", !.key = key,
                                       !.pc = IF key \in FKeys(fcache)
                                              THEN "hit_load" ELSE "miss_load"]]
    /\ UNCHANGED <<cls, maxsize, hits, misses, cache, full, head, heap, fcache, histVars, lock>>

\* __getitem__ of a FIFOCache, finally clause, self.hits += 1: the load
THitLoad(t) ==
    /\ thr[t].pc = "hit_load"
    /\ thr' = [thr EXCEPT ![t].pc = "hit_store", ![t].read = hits]
    /\ UNCHANGED <<cls, maxsize, hits, misses, cache, full, head, heap, fcache, histVars,
                   lock, calls>>

\* self.hits += 1: the store; the value is returned or the KeyError goes on
THitStore(t) ==
    /\ thr[t].pc = "hit_store"
    /\ hits' = thr[t].read + 1
    /\ thr' = [thr EXCEPT ![t] = Idle(thr[t].err)]
    /\ UNCHANGED <<cls, maxsize, misses, cache, full, head, heap, fcache, histVars, lock, calls>>

NextThreads ==
    \/ \E t \in Threads, key \in Keys : TLookupRead(t, "get", key)
    \/ \E t \in Threads, key \in Keys : TLookupRead(t, "getitem", key)
    \/ \E t \in Threads : TMissLoad(t)
    \/ \E t \in Threads : TMissStore(t)
    \/ \E t \in Threads : TPromote(t)
    \/ \E t \in Threads, key \in Keys, value \in Values : TSet(t, key, value)
    \/ \E t \in Threads : TClear(t)
    \/ \E t \in Threads, key \in Keys, value \in Values : TFSetCheck(t, key, value)
    \/ \E t \in Threads : TFSetFirst(t)
    \/ \E t \in Threads : TFSetPop(t)
    \/ \E t \in Threads : TFSetPut(t)
    \/ \E t \in Threads : TFClear(t)
    \/ \E t \in Threads, key \in Keys : TFGetitemRead(t, key)
    \/ \E t \in Threads : THitLoad(t)
    \/ \E t \in Threads : THitStore(t)

\* threads calling get, __getitem__, set and clear of one instance
SpecThreads == Init /\ [][NextThreads]_vars

NextLookupSet ==
    \/ \E t \in Threads, key \in Keys : TLookupRead(t, "get", key)
    \/ \E t \in Threads, key \in Keys : TLookupRead(t, "getitem", key)
    \/ \E t \in Threads : TMissLoad(t)
    \/ \E t \in Threads : TMissStore(t)
    \/ \E t \in Threads : TPromote(t)
    \/ \E t \in Threads, key \in Keys, value \in Values : TSet(t, key, value)

\* threads calling only get, __getitem__ and set of one LRUCache
SpecLookupSet == Init /\ [][NextLookupSet]_vars

\* ------------------------------------------------------------ properties
Size == IF cls = "LRUCache" THEN Cardinality(DOMAIN cache) ELSE Len(fcache)

IsLRU  == cls = "LRUCache"
IsFIFO == cls = "FIFOCache"

\* the links met by following NEXT from the head; none when the head is the
\* empty list
RingSeq(h, hd) == IF Len(h[hd]) = 0 THEN <<>> ELSE Walk(h, hd, <<>>)

RingNodes(h, hd) == Range(RingSeq(h, hd))

\* the keys of the links of the ring, from the head on
RingKeys(h, hd) ==
    LET ring == RingSeq(h, hd)
    IN  [i \in DOMAIN ring |-> h[ring[i]][KEY]]

RingWellFormed(c, h, hd) ==
    LET ring == RingNodes(h, hd)
    IN  /\ \A n \in ring :
              /\ Len(h[n]) = 4
              /\ h[n][PREV] \in ring /\ h[n][NEXT] \in ring
              /\ h[h[n][PREV]][NEXT] = n
              /\ h[h[n][NEXT]][PREV] = n
        /\ Cardinality(ring) = 1 => \A n \in ring : h[n][PREV] = n /\ h[n][NEXT] = n
        /\ ring = Range(c)
        /\ \A k \in DOMAIN c :
              /\ h[c[k]][KEY] = k
              /\ Cardinality({n \in ring : h[n][KEY] = k}) = 1
        /\ (ring = {}) <=> (c = EmptyDict)

\* C1: an LRUCache built with maxsize >= 1, whose maxsize changes through
\* grow only, never holds more than maxsize entries.
C1_LRUCapacity == IsLRU => Cardinality(DOMAIN cache) <= maxsize

C1_Witness ==
    /\ IsLRU /\ last.op = "set" /\ last.removed # {}
    /\ Cardinality(DOMAIN cache) = maxsize

\* C2: a FIFOCache built with maxsize >= 1 never holds more than maxsize
\* entries, each under a key of its own.
C2_FIFOCapacity ==
    IsFIFO =>
        /\ Len(fcache) <= maxsize
        /\ Cardinality(FKeys(fcache)) = Len(fcache)

C2_Witness ==
    /\ IsFIFO /\ last.op = "set" /\ last.removed # {}
    /\ Len(fcache) = maxsize

\* C3: when a set of a new key evicts, the victim is the least recently used
\* key among those present before the call, the new key is kept and so is
\* every other key.
C3_LRUVictim ==
    [][ (IsLRU /\ last'.op = "set" /\ last'.removed # {}) =>
            /\ last'.key \notin DOMAIN cache
            /\ recency # <<>>
            /\ last'.removed = {recency[Len(recency)]}
            /\ DOMAIN cache' = (DOMAIN cache \cup {last'.key}) \ last'.removed
            /\ last'.key \in DOMAIN cache' ]_vars

C3_Witness ==
    /\ IsLRU /\ last.op = "set" /\ last.removed # {}
    /\ hits > 0
    /\ Cardinality(DOMAIN cache) >= 2

\* C4: a FIFOCache set of an absent key into a cache holding maxsize entries
\* removes exactly the earliest inserted key, whose get then returns the
\* default; lookups leave the mapping, hence the next victim, unchanged.
C4_FIFOVictim ==
    [][ /\ (IsFIFO /\ last'.op = "set" /\ last'.key \notin FKeys(fcache)
               /\ Len(fcache) = maxsize) =>
            /\ last'.removed = {inserted[1]}
            /\ FKeys(fcache') = (FKeys(fcache) \ {inserted[1]}) \cup {last'.key}
            /\ \A d \in Defaults : FGetResult(fcache', inserted[1], d) = d
        /\ (IsFIFO /\ last'.op \in {"get", "getitem", "contains", "keys"}) =>
            /\ fcache' = fcache
            /\ last'.removed = {} ]_vars

C4_Witness ==
    /\ IsFIFO /\ last.op = "set" /\ last.removed # {}
    /\ hits > 0
    /\ Len(fcache) >= 2

\* C5: an LRUCache set of a key that is present changes nothing: not the
\* value, the ring, the head, the mapping, the full flag or the counters.
C5_LRUSetPresentNoOp ==
    [][ (IsLRU /\ last'.op = "set" /\ last'.key \in DOMAIN cache) =>
            /\ UNCHANGED <<cache, heap, head, full, hits, misses, maxsize>>
            /\ heap'[cache'[last'.key]][VALUE] = heap[cache[last'.key]][VALUE]
            /\ last'.removed = {} ]_vars

\* the key of the last set is not at the head: it was present before the call
C5_Witness ==
    /\ IsLRU /\ last.op = "set" /\ last.key \in DOMAIN cache
    /\ cache[last.key] # head
    /\ Cardinality(DOMAIN cache) = maxsize

\* C6: a FIFOCache set of a key that is present replaces its value where it
\* stands: nothing is evicted, the keys and their order stay, the other
\* values stay, and get then returns the new value.
C6_FIFOSetPresentOverwrites ==
    [][ (IsFIFO /\ last'.op = "set" /\ last'.key \in FKeys(fcache)) =>
            /\ last'.removed = {}
            /\ Len(fcache') = Len(fcache)
            /\ \A i \in DOMAIN fcache :
                  /\ fcache'[i][1] = fcache[i][1]
                  /\ fcache[i][1] # last'.key => fcache'[i][2] = fcache[i][2]
            /\ \A value \in Values : FIFOSet(last'.key, value) =>
                  \A d \in Defaults : FGetResult(fcache', last'.key, d) = value
            /\ UNCHANGED <<maxsize, hits, misses>> ]_vars

\* the key of the last set stands first among maxsize keys: it was overwritten
C6_Witness ==
    /\ IsFIFO /\ last.op = "set" /\ last.removed = {}
    /\ Len(fcache) = maxsize /\ Len(fcache) >= 2
    /\ fcache[1][1] = last.key

\* C7: an LRUCache lookup of an absent key returns the default (get) or
\* raises KeyError (indexed access), adds exactly 1 to misses and changes
\* nothing else.
C7_LRUMissNoMutation ==
    [][ (IsLRU /\ last'.op \in {"get", "getitem"} /\ last'.key \notin DOMAIN cache) =>
            /\ UNCHANGED <<cache, heap, head, full, maxsize, hits>>
            /\ misses' = misses + 1
            /\ last'.op = "get" =>
                  /\ ~ last'.raised
                  /\ \A d \in Defaults : LRUGet(last'.key, d) => last'.ret = d
            /\ last'.op = "getitem" => last'.raised ]_vars

C7_Witness ==
    /\ IsLRU /\ last.op = "getitem" /\ last.raised
    /\ cache # EmptyDict /\ misses > 0

\* C8: in an LRUCache hits counts the lookups of keys that were present and
\* misses the lookups of keys that were absent; no other call changes them.
C8_LRUAccounting ==
    [][ IsLRU =>
            /\ hits' = lookups'.hit
            /\ misses' = lookups'.miss
            /\ last'.op \in {"set", "contains", "keys", "grow", "clear"}
                  => UNCHANGED <<hits, misses>> ]_vars

C8_Witness ==
    /\ IsLRU /\ hits > 0 /\ misses > 0 /\ full
    /\ last.op = "get" /\ ~ last.raised /\ last.key \in DOMAIN cache

C10_Grow ==
    [][ IsLRU =>
            /\ maxsize' = requested'
            /\ last'.op = "grow" =>
                  /\ \A n \in Sizes : LRUGrow(n) =>
                        maxsize' = (IF maxsize >= n THEN maxsize ELSE n)
                  /\ UNCHANGED <<cache, heap, head, full, hits, misses>> ]_vars

\* a full cache holds fewer than maxsize keys: grow has raised maxsize
C10_Witness ==
    /\ IsLRU /\ last.op = "grow" /\ full
    /\ Cardinality(DOMAIN cache) < maxsize

\* C11: no call that can change the capacity of an LRUCache, grow or an
\* assignment to the maxsize property, makes maxsize smaller than it was.
C11_MaxsizeNeverShrinks ==
    [][ (IsLRU /\ last'.op \in {"grow", "maxsize"}) => maxsize' >= maxsize ]_vars

AllReturned == \A t \in Threads : thr[t].pc = "idle"

\* C12: when threads call get, indexed access and set of one LRUCache with no
\* synchronisation of their own, then once every call has returned each
\* cached key has exactly one link in the ring, the ring holds no link whose
\* key is not cached, and at most maxsize keys are cached.
C12_LookupSetSafe ==
    (IsLRU /\ AllReturned) =>
        /\ RingWellFormed(cache, heap, head)
        /\ Cardinality(DOMAIN cache) <= maxsize

\* C13: when threads call get, indexed access, set and clear of one LRUCache,
\* no call ends in an error other than the KeyError of an indexed access of
\* an absent key: get returns, and set does not fail while it evicts.
C13_NoOtherError ==
    IsLRU => \A t \in Threads :
                /\ thr[t].err \in {"none", "KeyNotFound"}
                /\ thr[t].err = "KeyNotFound" => thr[t].pc = "idle"

\* C14: set, promotion and clear run entirely under the lock of the
\* instance: a clear takes effect only while no other call holds the lock,
\* so a FIFOCache set never finds the mapping emptied between its capacity
\* test and its eviction.
C14_MutuallyExclusive ==
    [][ \A t \in Threads :
          /\ (TClear(t) \/ TFClear(t)) => lock = 0
          /\ IsFIFO => thr'[t].err \notin {"StopIteration", "KeyError"} ]_vars

\* C15: hits and misses never decrease in any step, also when threads look
\* up concurrently and an increment is a load followed by a store.
C15_CountersMonotonic ==
    [][ hits' >= hits /\ misses' >= misses ]_vars

\* C16: a FIFOCache get never changes hits or misses and returns the value
\* or the default; indexed access of a present key returns its value and adds
\* 1 to hits only; indexed access of an absent key raises KeyError, leaves the
\* mapping as it was and adds 1 to misses and 1 to hits.
C16_FIFOLookupAccounting ==
    [][ IsFIFO =>
          /\ last'.op = "get" =>
                /\ UNCHANGED <<hits, misses, fcache>>
                /\ ~ last'.raised
                /\ last'.key \in FKeys(fcache) =>
                      last'.ret = fcache[FIndex(fcache, last'.key)][2]
                /\ last'.key \notin FKeys(fcache) => last'.ret \in Defaults
          /\ (last'.op = "getitem" /\ last'.key \in FKeys(fcache)) =>
                /\ ~ last'.raised
                /\ last'.ret = fcache[FIndex(fcache, last'.key)][2]
                /\ hits' = hits + 1
                /\ misses' = misses
                /\ fcache' = fcache
          /\ (last'.op = "getitem" /\ last'.key \notin FKeys(fcache)) =>
                /\ last'.raised
                /\ fcache' = fcache
                /\ misses' = misses + 1
                /\ hits' = hits + 1 ]_vars

\* a failed indexed access after a successful one, on a cache that holds keys
C16_Witness ==
    /\ IsFIFO /\ last.op = "getitem" /\ last.raised
    /\ fcache # <<>> /\ misses = 1 /\ hits = 2

\* C17: after every call of a single-threaded run the ring of an LRUCache is
\* a well-formed circular doubly-linked list, its links are exactly the links
\* the mapping holds, every cached key labels exactly one link, the one the
\* mapping gives for it, and the ring is empty exactly when the mapping is.
C17_RingConsistent == IsLRU => RingWellFormed(cache, heap, head)

\* a full cache of two keys right after a successful lookup
C17_Witness ==
    /\ IsLRU /\ full /\ Cardinality(DOMAIN cache) >= 2
    /\ last.op \in {"get", "getitem"} /\ ~ last.raised /\ last.key \in DOMAIN cache
    /\ hits = 2

\* C18: following NEXT from the head visits the cached keys from the most to
\* the least recently used (recency: the later of insertion and last
\* successful lookup), each once; a key just inserted or just found is at
\* the head, and the link before the head holds the least recently used key.
C18_RingOrder ==
    /\ [] ( IsLRU =>
              /\ RingKeys(heap, head) = recency
              /\ \A i, j \in DOMAIN recency : recency[i] = recency[j] => i = j
              /\ cache # EmptyDict =>
                    heap[heap[head][PREV]][KEY] = recency[Len(recency)] )
    /\ [][ ( /\ IsLRU
             /\ \/ (last'.op = "set" /\ last'.key \notin DOMAIN cache)
                \/ (last'.op \in {"get", "getitem"} /\ last'.key \in DOMAIN cache) ) =>
               heap'[head'][KEY] = last'.key ]_vars

\* a lookup has moved the older of two keys to the head of a full cache
C18_Witness ==
    /\ IsLRU /\ full /\ Len(recency) >= 2
    /\ last.op \in {"get", "getitem"} /\ ~ last.raised /\ last.key \in DOMAIN cache
    /\ recency[1] < recency[Len(recency)]

\* C19: a successful lookup of the key at the head changes no link, no
\* mapping entry and no key order and evicts nothing; only hits grows by 1.
C19_HeadLookupIdempotent ==
    [][ ( /\ IsLRU /\ last'.op \in {"get", "getitem"}
          /\ last'.key \in DOMAIN cache /\ cache[last'.key] = head ) =>
            /\ UNCHANGED <<cache, heap, head, full, misses, maxsize>>
            /\ RingKeys(heap', head') = RingKeys(heap, head)
            /\ last'.removed = {}
            /\ ~ last'.raised
            /\ hits' = hits + 1 ]_vars

\* the second of two lookups, the key found is at the head of two keys
C19_Witness ==
    /\ IsLRU /\ last.op \in {"get", "getitem"} /\ ~ last.raised
    /\ hits = 2 /\ misses = 0
    /\ Cardinality(DOMAIN cache) >= 2 /\ heap[head][KEY] = last.key

\* C20: once a set has evicted, the full flag stays set until clear: every
\* later set of a new key evicts exactly one entry, the number of entries
\* stays the same under every call but clear, also after grow has raised
\* maxsize, and only an evicting set raises the flag.
C20_FullSticky ==
    [][ IsLRU =>
          /\ (full /\ last'.op = "set" /\ last'.key \notin DOMAIN cache) =>
                /\ Cardinality(last'.removed) = 1
                /\ last'.key \in DOMAIN cache'
          /\ (full /\ last'.op # "clear") =>
                /\ full'
                /\ Cardinality(DOMAIN cache') = Cardinality(DOMAIN cache)
          /\ (full /\ ~ full') => last'.op = "clear"
          /\ (~ full /\ full') => (last'.op = "set" /\ last'.removed # {}) ]_vars

\* a set has evicted although maxsize, raised by grow, exceeds the entries
C20_Witness ==
    /\ IsLRU /\ full /\ last.op = "set" /\ last.removed # {}
    /\ Cardinality(DOMAIN cache) < maxsize

====
